---- MODULE Spec2Model ----
(***************************************************************************)
(* The quiz session engine of index.js: the in-memory session store, the   *)
(* adaptive question selector (getNextQuestion), the answer handler        *)
(* (POST /quiz/answer/:quizId) and the lifetime stats upsert               *)
(* (updateOverallStats).                                                   *)
(***************************************************************************)
EXTENDS Integers, Sequences, FiniteSets, TLC

\* ------------------------------------------------------------- constants
QUIZ_LIMIT == 20

\* ---------------------------------------------------------------- bounds
\* Sessions the store may hold (quizIds are 1..MaxSessions).
MaxSessions == 2
\* Questions the long bank holds beyond QUIZ_LIMIT.
BankExtra == 1
\* Accepted answers already behind the long session when a behaviour of the
\* long bank begins (see InitLong).
PrefixAnswers == 17

\* ---------------------------------------------------------------- inputs
Users == {"u1", "u2"}
\* req.body.category: "" stands for an absent (falsy) category.
NoCategory == ""
AnswerValues == {"A", "B"}
\* What getNextQuestion returns when the pool is empty.
Null == 0

\* String.prototype.toLowerCase on the strings the model uses.
ToLowerCase(s) ==
    CASE s = "Science" -> "science"
      [] s = "History" -> "history"
      [] s = "General" -> "general"
      [] s = "Math" -> "math"
      [] OTHER -> s

\* ------------------------------------------------------------------ banks
\* A question record of data.json; category "" and points 0 stand for an
\* absent (falsy) field.
\* One question: a store of MaxSessions sessions is explored on it.
TinyBank ==
    << [id |-> 1, difficulty |-> 4, category |-> "Science", answer |-> "A", points |-> 0] >>

\* Ties, a 5-point question, a second category and a far difficulty.
ShortBank ==
    << [id |-> 1, difficulty |-> 3, category |-> "Science", answer |-> "A", points |-> 0],
       [id |-> 2, difficulty |-> 3, category |-> "Science", answer |-> "B", points |-> 5],
       [id |-> 3, difficulty |-> 5, category |-> "History", answer |-> "A", points |-> 10] >>

LongBank ==
    [i \in 1..(QUIZ_LIMIT + BankExtra) |->
        [id |-> i,
         difficulty |-> ((i - 1) % 5) + 1,
         category |-> IF i % 2 = 0 THEN "Science" ELSE "",
         answer |-> IF i % 3 = 0 THEN "B" ELSE "A",
         points |-> IF i % 2 = 0 THEN 0 ELSE 10]]

VARIABLES
    allQuestions,   \* the question bank, read once at process start
    sessions,       \* the session store: sessions[quizId]
    stats,          \* the quiz-stats collection: stats[userId] is the sequence
                    \* of the documents whose userId is userId, oldest first
    inflight,       \* stats upserts issued whose query the store has not run
    inserting,      \* stats upserts whose query matched no document and
                    \* whose insert the store has not yet done
    failed,         \* quizIds whose stats upsert was rejected by the store
    ghost,          \* per session: history the claims speak about
    resp            \* the response to the latest request

vars == <<allQuestions, sessions, stats, inflight, inserting, failed, ghost, resp>>

\* Sessions explored together: MaxSessions on the one-question bank, one on
\* the banks whose sessions run longer.
SessionCap == IF allQuestions = TinyBank THEN MaxSessions ELSE 1

\* The categories a start request names: none, one the bank has in another
\* case, and one the bank does not have; on the one-question bank, none.
StartCategories ==
    IF allQuestions = TinyBank THEN {NoCategory}
    ELSE {NoCategory, "science", "Math"}

\* A questionId no bank record carries.
UnknownQuestion == Len(allQuestions) + 1

\* --------------------------------------------------------------- helpers
Includes(seq, x) == \E i \in 1..Len(seq) : seq[i] = x

Min(a, b) == IF a < b THEN a ELSE b
Max(a, b) == IF a > b THEN a ELSE b
Abs(a) == IF a < 0 THEN -a ELSE a

QuizIds == 1..MaxSessions

\* ------------------------------------------------------- getNextQuestion
\* Mutant: the pool keeps the questions already seen.
AvailableQuestions_KeepsSeen(session) ==
    IF session.category # "" /\ ToLowerCase(session.category) # "general"
    THEN SelectSeq(allQuestions, LAMBDA q :
             q.category # ""
             /\ ToLowerCase(q.category) = ToLowerCase(session.category))
    ELSE allQuestions

\* Mutant: an emptied category falls back to every unseen question.
AvailableQuestions_FallsBack(session) ==
    LET unseen == SelectSeq(allQuestions, LAMBDA q : ~Includes(session.seenIds, q.id))
        narrowed == SelectSeq(unseen, LAMBDA q :
                        q.category # ""
                        /\ ToLowerCase(q.category) = ToLowerCase(session.category))
    IN  IF session.category # "" /\ ToLowerCase(session.category) # "general"
           /\ Len(narrowed) # 0
        THEN narrowed
        ELSE unseen

AvailableQuestions(session) ==
    LET unseen == SelectSeq(allQuestions, LAMBDA q : ~Includes(session.seenIds, q.id))
    IN  IF session.category # "" /\ ToLowerCase(session.category) # "general"
        THEN SelectSeq(unseen, LAMBDA q :
                 q.category # ""
                 /\ ToLowerCase(q.category) = ToLowerCase(session.category))
        ELSE unseen

\* Mutant: no tier of difficulty one away.
PreferredQuestions_NoNearTier(session) ==
    LET available == AvailableQuestions(session)
        exact == SelectSeq(available, LAMBDA q : q.difficulty = session.currentDifficulty)
    IN  IF Len(exact) # 0 THEN exact ELSE available

PreferredQuestions(session) ==
    LET available == AvailableQuestions(session)
        exact == SelectSeq(available, LAMBDA q : q.difficulty = session.currentDifficulty)
        near == SelectSeq(available, LAMBDA q :
                    Abs(q.difficulty - session.currentDifficulty) = 1)
    IN  IF Len(exact) # 0 THEN exact
        ELSE IF Len(near) # 0 THEN near
        ELSE available

\* The values Math.floor(Math.random() * preferredQuestions.length) can take
\* (0 alone when no draw is made).
RandomIndices(session) ==
    IF Len(PreferredQuestions(session)) = 0 THEN {0}
    ELSE 0..(Len(PreferredQuestions(session)) - 1)

\* The id of the question returned, or Null; rnd is the random index drawn.
getNextQuestion(session, rnd) ==
    IF Len(AvailableQuestions(session)) = 0 THEN Null
    ELSE PreferredQuestions(session)[rnd + 1].id

\* ------------------------------------------------------------ /quiz/start
NewSession(userId, category) ==
    [userId |-> userId,
     category |-> IF category = NoCategory THEN "general" ELSE category,
     score |-> 0,
     correct |-> 0,
     wrong |-> 0,
     seenIds |-> <<>>,
     currentDifficulty |-> 3,
     currentStreak |-> 0,
     bestStreakInGame |-> 0,
     isCompleted |-> FALSE]

NoFinal == [score |-> 0, correct |-> 0, wrong |-> 0, bestStreak |-> 0]

NewGhost ==
    [delivered |-> 0,      \* questions sent to the client
     accepted |-> 0,       \* answers that were evaluated
     right |-> 0,          \* evaluated answers that were right
     wrongs |-> 0,         \* evaluated answers that were wrong
     aggCalls |-> 0,       \* calls of updateOverallStats
     noneAvailable |-> FALSE,  \* getNextQuestion has returned null for it
     final |-> NoFinal]    \* finalStats of the completing response

\* The session stored by the start handler, and what it answers.
StartOutcome(userId, category, rnd) ==
    LET fresh == NewSession(userId, category)
        firstQuestion == getNextQuestion(fresh, rnd)
    IN  IF firstQuestion = Null
        THEN [session |-> fresh, kind |-> "startNoQuestions", question |-> Null]
        ELSE [session |-> [fresh EXCEPT !.seenIds = Append(@, firstQuestion)],
              kind |-> "started", question |-> firstQuestion]

GhostAfterStart(out) ==
    [NewGhost EXCEPT !.delivered = IF out.question = Null THEN 0 ELSE 1,
                     !.noneAvailable = (out.question = Null)]

\* ------------------------------------------------- /quiz/answer/:quizId
\* allQuestions.find(q => q.id === questionId): the first match, or Null.
FindQuestion(questionId) ==
    LET hits == SelectSeq(allQuestions, LAMBDA q : q.id = questionId)
    IN  IF Len(hits) = 0 THEN Null ELSE hits[1]

QuestionKnown(questionId) == \E i \in 1..Len(allQuestions) : allQuestions[i].id = questionId

\* question.points || 10
\* Mutant: no default for a question without points.
PointsOf_NoDefault(question) == question.points

PointsOf(question) == IF question.points = 0 THEN 10 ELSE question.points

IsCorrect(question, answer) == question.answer = answer

\* Mutant: the difficulty is not clamped.
Evaluate_NoClamp(session, question, answer) ==
    LET scored ==
            IF IsCorrect(question, answer)
            THEN [session EXCEPT !.score = @ + PointsOf(question),
                                 !.correct = @ + 1,
                                 !.currentStreak = @ + 1,
                                 !.currentDifficulty = @ + 1]
            ELSE [session EXCEPT !.wrong = @ + 1,
                                 !.currentStreak = 0,
                                 !.currentDifficulty = @ - 1]
    IN  [scored EXCEPT !.bestStreakInGame = Max(@, scored.currentStreak)]

\* Mutant: the best streak is taken before the streak is updated.
Evaluate_StaleBest(session, question, answer) ==
    LET best == Max(session.bestStreakInGame, session.currentStreak)
    IN  IF IsCorrect(question, answer)
        THEN [session EXCEPT !.score = @ + PointsOf(question),
                             !.correct = @ + 1,
                             !.currentStreak = @ + 1,
                             !.currentDifficulty = Min(5, @ + 1),
                             !.bestStreakInGame = best]
        ELSE [session EXCEPT !.wrong = @ + 1,
                             !.currentStreak = 0,
                             !.currentDifficulty = Max(1, @ - 1),
                             !.bestStreakInGame = best]

\* Mutant: a wrong answer is counted as a correct one.
Evaluate_WrongCountsCorrect(session, question, answer) ==
    LET scored ==
            IF IsCorrect(question, answer)
            THEN [session EXCEPT !.score = @ + PointsOf(question),
                                 !.correct = @ + 1,
                                 !.currentStreak = @ + 1,
                                 !.currentDifficulty = Min(5, @ + 1)]
            ELSE [session EXCEPT !.correct = @ + 1,
                                 !.currentStreak = 0,
                                 !.currentDifficulty = Max(1, @ - 1)]
    IN  [scored EXCEPT !.bestStreakInGame = Max(@, scored.currentStreak)]

\* Lines 211-223: the scoring step.
Evaluate(session, question, answer) ==
    LET scored ==
            IF IsCorrect(question, answer)
            THEN [session EXCEPT !.score = @ + PointsOf(question),
                                 !.correct = @ + 1,
                                 !.currentStreak = @ + 1,
                                 !.currentDifficulty = Min(5, @ + 1)]
            ELSE [session EXCEPT !.wrong = @ + 1,
                                 !.currentStreak = 0,
                                 !.currentDifficulty = Max(1, @ - 1)]
    IN  [scored EXCEPT !.bestStreakInGame = Max(@, scored.currentStreak)]

\* Mutant: the limit is tested with > instead of >=.
LimitReached_OffByOne(session) == Len(session.seenIds) > QUIZ_LIMIT

\* The check at line 226.
LimitReached(session) == Len(session.seenIds) >= QUIZ_LIMIT

\* Mutant: the guard forgets session.isCompleted.
SessionRejected_IgnoresCompleted(quizId, userId) ==
    IF quizId \notin DOMAIN sessions THEN TRUE
    ELSE sessions[quizId].userId # userId

\* Mutant: the guard forgets to compare session.userId with the requester.
SessionRejected_IgnoresOwner(quizId, userId) ==
    IF quizId \notin DOMAIN sessions THEN TRUE
    ELSE sessions[quizId].isCompleted

\* The guard at line 199: TRUE when the request is turned away.
SessionRejected(quizId, userId) ==
    IF quizId \notin DOMAIN sessions THEN TRUE
    ELSE IF sessions[quizId].userId # userId THEN TRUE
    ELSE sessions[quizId].isCompleted

FinalStats(session) ==
    [score |-> session.score, correct |-> session.correct,
     wrong |-> session.wrong, bestStreak |-> session.bestStreakInGame]

\* The update document updateOverallStats hands to findOneAndUpdate.
UpsertOf(quizId, session) ==
    [quizId |-> quizId, userId |-> session.userId, score |-> session.score,
     correct |-> session.correct, wrong |-> session.wrong,
     bestStreak |-> session.bestStreakInGame]

\* Lines 208-264 on a session that passed the guards: the session written
\* back, the kind of response, the question delivered (Null if none), whether
\* getNextQuestion returned null, and the upserts updateOverallStats issued.
AnswerOutcome(quizId, session, question, answer, rnd) ==
    LET evaluated == Evaluate(session, question, answer)
        completed == [evaluated EXCEPT !.isCompleted = TRUE]
        nextQuestion == getNextQuestion(evaluated, rnd)
    IN  IF LimitReached(evaluated)
        THEN [session |-> completed, kind |-> "completedLimit", question |-> Null,
              selectorNull |-> FALSE, upserts |-> {UpsertOf(quizId, completed)}]
        ELSE IF nextQuestion = Null
        THEN [session |-> completed, kind |-> "completedExhausted", question |-> Null,
              selectorNull |-> TRUE, upserts |-> {UpsertOf(quizId, completed)}]
        ELSE [session |-> [evaluated EXCEPT !.seenIds = Append(@, nextQuestion)],
              kind |-> "next", question |-> nextQuestion,
              selectorNull |-> FALSE, upserts |-> {}]

GhostAfterAnswer(g, question, answer, out) ==
    [g EXCEPT !.delivered = IF out.question = Null THEN @ ELSE @ + 1,
              !.accepted = @ + 1,
              !.right = IF IsCorrect(question, answer) THEN @ + 1 ELSE @,
              !.wrongs = IF IsCorrect(question, answer) THEN @ ELSE @ + 1,
              !.aggCalls = @ + Cardinality(out.upserts),
              !.noneAvailable = @ \/ out.selectorNull,
              !.final = IF out.session.isCompleted THEN FinalStats(out.session) ELSE @]

\* -------------------------------------------------- updateOverallStats
NoStats ==
    [exists |-> FALSE, gamesPlayed |-> 0, totalScore |-> 0, totalCorrect |-> 0,
     totalWrong |-> 0, bestStreak |-> 0]

\* Mutant: bestStreak is overwritten instead of raised to the maximum.
Upserted_OverwritesBest(record, u) ==
    [exists |-> TRUE,
     gamesPlayed |-> record.gamesPlayed + 1,
     totalScore |-> record.totalScore + u.score,
     totalCorrect |-> record.totalCorrect + u.correct,
     totalWrong |-> record.totalWrong + u.wrong,
     bestStreak |-> u.bestStreak]

\* findOneAndUpdate({userId}, {$inc, $max}, {upsert: true}) on one record.
Upserted(record, u) ==
    [exists |-> TRUE,
     gamesPlayed |-> record.gamesPlayed + 1,
     totalScore |-> record.totalScore + u.score,
     totalCorrect |-> record.totalCorrect + u.correct,
     totalWrong |-> record.totalWrong + u.wrong,
     bestStreak |-> Max(record.bestStreak, u.bestStreak)]

\* The HTTP status of each way a quiz handler answers (lines 176, 200, 205,
\* 309; res.json elsewhere).
StatusOf(kind) ==
    CASE kind \in {"startNoQuestions", "sessionRejected", "questionNotFound", "resultNotFound"} -> 404
      [] OTHER -> 200

\* The error text of each way a quiz handler turns a request away.
ErrorOf(kind) ==
    CASE kind = "startNoQuestions" ->
           "Could not load any questions for the selected category. Please try another one."
      [] kind = "sessionRejected" -> "Quiz session not found, not yours, or already completed."
      [] kind = "questionNotFound" -> "Question not found."
      [] kind = "resultNotFound" -> "Completed quiz session not found or not accessible."
      [] OTHER -> ""

\* ------------------------------------------------------------- responses
\* The latest request (op, quizId, userId, questionId) and what it was
\* answered: the kind of response, the question delivered, the final figures.
NoResp ==
    [op |-> "none", quizId |-> 0, userId |-> "", questionId |-> 0, answer |-> "",
     kind |-> "none", question |-> Null, final |-> NoFinal]

Response(op, quizId, userId, questionId, kind, question, final) ==
    [op |-> op, quizId |-> quizId, userId |-> userId, questionId |-> questionId,
     answer |-> "", kind |-> kind, question |-> question, final |-> final]

\* ----------------------------------------------------------------- Init
InitShort ==
    /\ allQuestions \in {TinyBank, ShortBank}
    /\ sessions = <<>>
    /\ ghost = <<>>
    /\ stats = [u \in Users |-> <<>>]
    /\ inflight = {}
    /\ inserting = {}
    /\ failed = {}
    /\ resp = NoResp

\* The long bank makes QUIZ_LIMIT reachable. Its behaviours begin after a
\* prefix of requests that the handlers themselves compute: a start by u1
\* without category and PrefixAnswers answers to the question just
\* delivered, right or wrong as the script says, the selector drawing index
\* 0 each time.
Scripts == {"right", "wrong", "mixed"}

ScriptRight(script, n) ==
    CASE script = "right" -> TRUE
      [] script = "wrong" -> FALSE
      [] OTHER -> n % 3 # 0

OtherAnswer(answer) == IF answer = "A" THEN "B" ELSE "A"

ReplayStart ==
    LET out == StartOutcome("u1", NoCategory, 0)
    IN  [s |-> out.session, g |-> GhostAfterStart(out)]

ReplayAnswer(p, right) ==
    LET question == FindQuestion(p.s.seenIds[Len(p.s.seenIds)])
        answer == IF right THEN question.answer ELSE OtherAnswer(question.answer)
        out == AnswerOutcome(1, p.s, question, answer, 0)
    IN  [s |-> out.session, g |-> GhostAfterAnswer(p.g, question, answer, out)]

RECURSIVE Replay(_, _)
Replay(script, n) ==
    IF n = 0 THEN ReplayStart
    ELSE CHOOSE r \in {ReplayAnswer(p, ScriptRight(script, n)) :
                          p \in {Replay(script, n - 1)}} : TRUE

InitLong ==
    /\ allQuestions = LongBank
    /\ \E script \in Scripts :
         \E p \in {Replay(script, PrefixAnswers)} :
            /\ sessions = <<p.s>>
            /\ ghost = <<p.g>>
    /\ stats = [u \in Users |-> <<>>]
    /\ inflight = {}
    /\ inserting = {}
    /\ failed = {}
    /\ resp = NoResp

Init == InitShort \/ InitLong

\* -------------------------------------------------------------- actions
\* POST /quiz/start; uuidv4() is the next unused quizId.
Start(userId, category, rnd) ==
    /\ Len(sessions) < SessionCap
    /\ LET out == StartOutcome(userId, category, rnd)
           quizId == Len(sessions) + 1
       IN  /\ sessions' = Append(sessions, out.session)
           /\ ghost' = Append(ghost, GhostAfterStart(out))
           /\ resp' = Response("start", quizId, userId, 0, out.kind, out.question, NoFinal)
    /\ UNCHANGED <<allQuestions, stats, inflight, inserting, failed>>

\* POST /quiz/answer/:quizId turned away at line 199.
AnswerRejected(quizId, userId, questionId) ==
    /\ SessionRejected(quizId, userId)
    /\ resp' = Response("answer", quizId, userId, questionId, "sessionRejected", Null, NoFinal)
    /\ UNCHANGED <<allQuestions, sessions, stats, inflight, inserting, failed, ghost>>

\* POST /quiz/answer/:quizId turned away at line 204.
AnswerUnknownQuestion(quizId, userId, questionId) ==
    /\ ~SessionRejected(quizId, userId)
    /\ ~QuestionKnown(questionId)
    /\ resp' = Response("answer", quizId, userId, questionId, "questionNotFound", Null, NoFinal)
    /\ UNCHANGED <<allQuestions, sessions, stats, inflight, inserting, failed, ghost>>

\* POST /quiz/answer/:quizId evaluated (lines 208-264).
AnswerAccepted(quizId, userId, questionId, answer, rnd) ==
    /\ ~SessionRejected(quizId, userId)
    /\ QuestionKnown(questionId)
    /\ LET question == FindQuestion(questionId)
           evaluated == Evaluate(sessions[quizId], question, answer)
       IN  /\ rnd \in (IF LimitReached(evaluated) THEN {0} ELSE RandomIndices(evaluated))
           /\ LET out == AnswerOutcome(quizId, sessions[quizId], question, answer, rnd)
              IN  /\ sessions' = [sessions EXCEPT ![quizId] = out.session]
                  /\ ghost' = [ghost EXCEPT ![quizId] =
                                  GhostAfterAnswer(@, question, answer, out)]
                  /\ inflight' = inflight \cup out.upserts
                  /\ resp' = [Response("answer", quizId, userId, questionId, out.kind,
                                  out.question,
                                  IF out.session.isCompleted THEN FinalStats(out.session)
                                  ELSE NoFinal)
                               EXCEPT !.answer = answer]
    /\ UNCHANGED <<allQuestions, stats, inserting, failed>>

\* Mutant: the guard forgets !session.isCompleted.
ResultRejected_IgnoresCompleted(quizId, userId) ==
    IF quizId \notin DOMAIN sessions THEN TRUE
    ELSE sessions[quizId].userId # userId

\* The guard at line 308.
ResultRejected(quizId, userId) ==
    IF quizId \notin DOMAIN sessions THEN TRUE
    ELSE IF sessions[quizId].userId # userId THEN TRUE
    ELSE ~sessions[quizId].isCompleted

\* GET /quiz/result/:quizId
Result(quizId, userId) ==
    /\ resp' = IF ResultRejected(quizId, userId)
               THEN Response("result", quizId, userId, 0, "resultNotFound", Null, NoFinal)
               ELSE Response("result", quizId, userId, 0, "result", Null, FinalStats(sessions[quizId]))
    /\ UNCHANGED <<allQuestions, sessions, stats, inflight, inserting, failed, ghost>>

\* StatsSchema declares no unique index on userId, so the store runs an
\* upsert as its documentation describes for that case: the update of a
\* matched document is atomic, but when the query matches nothing the insert
\* is a later step, and other upserts may run their query in between.

\* The store finds a document of the user and updates it, atomically.
StatsUpsert(u) ==
    /\ u \in inflight
    /\ stats[u.userId] # <<>>
    /\ stats' = [stats EXCEPT ![u.userId] = <<Upserted(Head(@), u)>> \o Tail(@)]
    /\ inflight' = inflight \ {u}
    /\ UNCHANGED <<allQuestions, sessions, inserting, failed, ghost, resp>>

\* The store's query finds no document of the user: the upsert will insert.
StatsUpsertMisses(u) ==
    /\ u \in inflight
    /\ stats[u.userId] = <<>>
    /\ inflight' = inflight \ {u}
    /\ inserting' = inserting \cup {u}
    /\ UNCHANGED <<allQuestions, sessions, stats, failed, ghost, resp>>

\* The store inserts the document of an upsert that matched nothing.
StatsInsert(u) ==
    /\ u \in inserting
    /\ stats' = [stats EXCEPT ![u.userId] = Append(@, Upserted(NoStats, u))]
    /\ inserting' = inserting \ {u}
    /\ UNCHANGED <<allQuestions, sessions, inflight, failed, ghost, resp>>

\* A catch that undoes the completion when the upsert fails.
StatsUpsertFails_RollsBack(u) ==
    /\ u \in inflight \cup inserting
    /\ inflight' = inflight \ {u}
    /\ inserting' = inserting \ {u}
    /\ failed' = failed \cup {u.quizId}
    /\ sessions' = [sessions EXCEPT ![u.quizId].isCompleted = FALSE]
    /\ UNCHANGED <<allQuestions, stats, ghost, resp>>

\* The store rejects an upsert; the catch at line 133 logs it.
StatsUpsertFails(u) ==
    /\ u \in inflight \cup inserting
    /\ inflight' = inflight \ {u}
    /\ inserting' = inserting \ {u}
    /\ failed' = failed \cup {u.quizId}
    /\ UNCHANGED <<allQuestions, sessions, stats, ghost, resp>>

\* StatsModel.findOne({ userId }): the user's first document, if any.
StatsRecord(userId) == IF stats[userId] = <<>> THEN NoStats ELSE Head(stats[userId])

\* The questionIds a request names: the question just delivered, the one
\* delivered before it, the first bank question not yet delivered, and an id
\* the bank does not hold.
QuestionIdInputs(quizId) ==
    LET seen == IF quizId \in DOMAIN sessions THEN sessions[quizId].seenIds ELSE <<>>
        unseen == SelectSeq(allQuestions, LAMBDA q : ~Includes(seen, q.id))
    IN  {UnknownQuestion}
        \cup (IF Len(seen) >= 1 THEN {seen[Len(seen)]} ELSE {})
        \cup (IF Len(seen) >= 2 THEN {seen[Len(seen) - 1]} ELSE {})
        \cup (IF Len(unseen) >= 1 THEN {unseen[1].id} ELSE {})

Next ==
    \/ \E userId \in Users, category \in StartCategories :
          \E rnd \in RandomIndices(NewSession(userId, category)) :
             Start(userId, category, rnd)
    \/ \E quizId \in QuizIds, userId \in Users :
          \E questionId \in QuestionIdInputs(quizId) :
             AnswerRejected(quizId, userId, questionId)
    \/ \E quizId \in QuizIds, userId \in Users :
          \E questionId \in QuestionIdInputs(quizId) :
             AnswerUnknownQuestion(quizId, userId, questionId)
    \/ \E quizId \in QuizIds, userId \in Users, answer \in AnswerValues :
          \E questionId \in QuestionIdInputs(quizId) :
             \E rnd \in 0..(Len(allQuestions) - 1) :
                AnswerAccepted(quizId, userId, questionId, answer, rnd)
    \/ \E quizId \in QuizIds, userId \in Users : Result(quizId, userId)
    \/ \E u \in inflight : StatsUpsert(u)
    \/ \E u \in inflight : StatsUpsertMisses(u)
    \/ \E u \in inserting : StatsInsert(u)
    \/ \E u \in inflight \cup inserting : StatsUpsertFails(u)

Spec == Init /\ [][Next]_vars

\* The behaviours that begin with an empty store.
SpecFresh == InitShort /\ [][Next]_vars

\* =================================================================
\* Claims
\* =================================================================
\* An answer response of the evaluated kind.
Evaluated(r) == r.op = "answer" /\ r.kind \in {"next", "completedLimit", "completedExhausted"}

\* A step that is a request answered: resp changes with every request that
\* is not a repetition of the one before it.
AnswerRequestOn(q) == resp' # resp /\ resp'.op = "answer" /\ resp'.quizId = q

\* C1: once a session's isCompleted is true it stays true, and every later
\* answer request on it, whoever makes it and whatever it names, is rejected
\* and leaves score, correct, wrong, seenIds, currentDifficulty,
\* currentStreak and bestStreakInGame as they were.
C1_CompletedIsFinal ==
    [][\A q \in DOMAIN sessions :
          sessions[q].isCompleted =>
             /\ q \in DOMAIN sessions'
             /\ sessions'[q].isCompleted
             /\ sessions'[q].score = sessions[q].score
             /\ sessions'[q].correct = sessions[q].correct
             /\ sessions'[q].wrong = sessions[q].wrong
             /\ sessions'[q].seenIds = sessions[q].seenIds
             /\ sessions'[q].currentDifficulty = sessions[q].currentDifficulty
             /\ sessions'[q].currentStreak = sessions[q].currentStreak
             /\ sessions'[q].bestStreakInGame = sessions[q].bestStreakInGame
             /\ (AnswerRequestOn(q) => resp'.kind = "sessionRejected")]_vars

\* C1 witness: the owner's answer to a bank question on a completed session
\* has just been rejected.
C1_Witness ==
    \E q \in DOMAIN sessions :
       /\ sessions[q].isCompleted
       /\ resp.op = "answer" /\ resp.quizId = q
       /\ resp.userId = sessions[q].userId
       /\ QuestionKnown(resp.questionId)
       /\ resp.kind = "sessionRejected"

\* C2: after an answer for question q was accepted in session s and s moved
\* on to a later question, a second answer request for q in s is rejected
\* and changes none of score, correct, wrong, streak and difficulty. Stated
\* for the request that repeats the accepted one at once.
C2_NoDoubleCounting ==
    [][(/\ resp.op = "answer" /\ resp.kind = "next"
        /\ resp'.op = "answer"
        /\ resp'.quizId = resp.quizId
        /\ resp'.userId = resp.userId
        /\ resp'.questionId = resp.questionId)
       => LET q == resp.quizId
          IN  /\ sessions'[q].score = sessions[q].score
              /\ sessions'[q].correct = sessions[q].correct
              /\ sessions'[q].wrong = sessions[q].wrong
              /\ sessions'[q].currentStreak = sessions[q].currentStreak
              /\ sessions'[q].currentDifficulty = sessions[q].currentDifficulty
              /\ (resp' # resp => resp'.kind \in {"sessionRejected", "questionNotFound"})]_vars

\* C3: currentDifficulty is always in 1..5; a session starts at 3; an
\* accepted right answer raises it by 1 unless it is 5, an accepted wrong
\* answer lowers it by 1 unless it is 1, and nothing else changes it.
C3_DifficultyInRange ==
    \A q \in DOMAIN sessions : sessions[q].currentDifficulty \in 1..5

C3_DifficultyStep ==
    \A q \in DOMAIN sessions' :
       IF q \notin DOMAIN sessions THEN sessions'[q].currentDifficulty = 3
       ELSE LET d == sessions[q].currentDifficulty
                d2 == sessions'[q].currentDifficulty
            IN  IF ghost'[q].accepted = ghost[q].accepted THEN d2 = d
                ELSE /\ ghost'[q].accepted = ghost[q].accepted + 1
                     /\ IF ghost'[q].right = ghost[q].right + 1
                        THEN d2 = (IF d = 5 THEN 5 ELSE d + 1)
                        ELSE d2 = (IF d = 1 THEN 1 ELSE d - 1)

\* C3: the range holds in every state and the step rule in every step.
C3_Difficulty == [](C3_DifficultyInRange) /\ [][C3_DifficultyStep]_vars

\* C3 witness: a third right answer in a row has left the difficulty at 5.
C3_Witness ==
    \E q \in DOMAIN sessions :
       /\ sessions[q].currentDifficulty = 5
       /\ sessions[q].currentStreak >= 3
       /\ resp.op = "answer" /\ resp.quizId = q /\ resp.kind = "next"

\* C4: bestStreakInGame >= currentStreak in every state, and no start,
\* answer or result request lowers bestStreakInGame.
C4_BestAtLeastCurrent ==
    \A q \in DOMAIN sessions :
       sessions[q].bestStreakInGame >= sessions[q].currentStreak

\* C4: the order holds in every state and no step lowers the best streak.
C4_BestStreak ==
    /\ [](C4_BestAtLeastCurrent)
    /\ [][\A q \in DOMAIN sessions :
             /\ q \in DOMAIN sessions'
             /\ sessions'[q].bestStreakInGame >= sessions[q].bestStreakInGame]_vars

\* C4 witness: a wrong answer has reset a streak of 2, which the best streak
\* keeps.
C4_Witness ==
    \E q \in DOMAIN sessions :
       /\ sessions[q].bestStreakInGame >= 2
       /\ sessions[q].currentStreak = 0
       /\ Evaluated(resp) /\ resp.quizId = q

\* C5: seenIds never holds an id twice; it grows by exactly the question
\* delivered when a start delivers the first question or an answer response
\* delivers the next one, and no other step changes it.
NoDuplicates(seq) == \A i, j \in 1..Len(seq) : seq[i] = seq[j] => i = j

C5_SeenIdsDistinct ==
    \A q \in DOMAIN sessions :
       /\ NoDuplicates(sessions[q].seenIds)
       /\ Len(sessions[q].seenIds) = ghost[q].delivered

C5_SeenIdsStep ==
    \A q \in DOMAIN sessions' :
       IF q \notin DOMAIN sessions
       THEN /\ resp'.op = "start" /\ resp'.quizId = q
            /\ sessions'[q].seenIds =
                  (IF resp'.question = Null THEN <<>> ELSE <<resp'.question>>)
       ELSE IF AnswerRequestOn(q) /\ resp'.question # Null
            THEN sessions'[q].seenIds = Append(sessions[q].seenIds, resp'.question)
            ELSE sessions'[q].seenIds = sessions[q].seenIds

\* C5: distinctness holds in every state and the growth rule in every step.
C5_SeenIds == [](C5_SeenIdsDistinct) /\ [][C5_SeenIdsStep]_vars

\* C5 witness: an answer response has delivered a third question.
C5_Witness ==
    \E q \in DOMAIN sessions :
       /\ Len(sessions[q].seenIds) = 3
       /\ resp.op = "answer" /\ resp.quizId = q /\ resp.kind = "next"
       /\ resp.question = sessions[q].seenIds[3]

\* C6: the length of seenIds never decreases and never exceeds QUIZ_LIMIT.
C6_AtMostLimit ==
    \A q \in DOMAIN sessions : Len(sessions[q].seenIds) <= QUIZ_LIMIT

\* C6: the limit holds in every state and no step shortens seenIds.
C6_SeenIdsBounded ==
    /\ [](C6_AtMostLimit)
    /\ [][\A q \in DOMAIN sessions :
             /\ q \in DOMAIN sessions'
             /\ Len(sessions'[q].seenIds) >= Len(sessions[q].seenIds)]_vars

\* C6 witness: a session holds QUIZ_LIMIT seen ids while the bank still has
\* a question it was never sent.
C6_Witness ==
    \E q \in DOMAIN sessions :
       /\ Len(sessions[q].seenIds) = QUIZ_LIMIT
       /\ Len(AvailableQuestions(sessions[q])) > 0

\* The bank questions a session of this category may be sent.
Eligible(session) == AvailableQuestions([session EXCEPT !.seenIds = <<>>])

\* C7: when the bank holds at least QUIZ_LIMIT questions eligible for a
\* started session's category, none of its first QUIZ_LIMIT - 1 accepted
\* answers completes it (each response carries a next question), and the
\* accepted answer number QUIZ_LIMIT completes it and returns finalStats
\* whose correct and wrong are the numbers of right and wrong answers among
\* them.
C7_TwentiethAnswerCompletes ==
    \A q \in DOMAIN sessions :
       (Len(sessions[q].seenIds) >= 1 /\ Len(Eligible(sessions[q])) >= QUIZ_LIMIT) =>
          /\ ghost[q].accepted <= QUIZ_LIMIT
          /\ sessions[q].isCompleted <=> ghost[q].accepted = QUIZ_LIMIT
          /\ (Evaluated(resp) /\ resp.quizId = q /\ ghost[q].accepted < QUIZ_LIMIT) =>
                (resp.kind = "next" /\ resp.question # Null)
          /\ (Evaluated(resp) /\ resp.quizId = q /\ ghost[q].accepted = QUIZ_LIMIT) =>
                /\ resp.kind = "completedLimit"
                /\ resp.final.correct = ghost[q].right
                /\ resp.final.wrong = ghost[q].wrongs
                /\ ghost[q].right + ghost[q].wrongs = QUIZ_LIMIT
          /\ sessions[q].isCompleted =>
                /\ ghost[q].final.correct = ghost[q].right
                /\ ghost[q].final.wrong = ghost[q].wrongs

\* C7 witness: the twentieth accepted answer has just completed a session
\* that gave right and wrong answers.
C7_Witness ==
    \E q \in DOMAIN sessions :
       /\ Len(Eligible(sessions[q])) >= QUIZ_LIMIT
       /\ sessions[q].isCompleted
       /\ ghost[q].accepted = QUIZ_LIMIT
       /\ resp.op = "answer" /\ resp.quizId = q /\ resp.kind = "completedLimit"
       /\ resp.final.correct > 0 /\ resp.final.wrong > 0

\* The bank record with this id.
QuestionOf(id) == CHOOSE rec \in {allQuestions[i] : i \in 1..Len(allQuestions)} : rec.id = id

SameCategory(question, session) ==
    question.category # "" /\ ToLowerCase(question.category) = ToLowerCase(session.category)

\* C8: every question delivered to a session whose category is not
\* "general" (in any case) has the session's category, case ignored; and
\* when the bank has no unseen question of that category the selector
\* returns none available, whatever else the bank holds.
C8_CategoryNeverLeaks ==
    \A q \in DOMAIN sessions :
       ToLowerCase(sessions[q].category) # "general" =>
          /\ \A i \in 1..Len(sessions[q].seenIds) :
                SameCategory(QuestionOf(sessions[q].seenIds[i]), sessions[q])
          /\ (\A i \in 1..Len(allQuestions) :
                 SameCategory(allQuestions[i], sessions[q])
                    => Includes(sessions[q].seenIds, allQuestions[i].id))
             => \A rnd \in 0..(Len(allQuestions) - 1) :
                   getNextQuestion(sessions[q], rnd) = Null

\* C8 witness: a "science" session was sent both "Science" questions and
\* then completed as exhausted while a "History" question was left unseen.
C8_Witness ==
    \E q \in DOMAIN sessions :
       /\ sessions[q].category = "science"
       /\ Len(sessions[q].seenIds) = 2
       /\ sessions[q].isCompleted
       /\ resp.quizId = q /\ resp.kind = "completedExhausted"
       /\ \E i \in 1..Len(allQuestions) : ~Includes(sessions[q].seenIds, allQuestions[i].id)

\* C9: whenever the selector has returned none available for a session, at
\* the answer step or at quiz start, the caller has marked the session
\* completed: no session stays in the store uncompleted after that.
C9_NoneAvailableCompletes ==
    \A q \in DOMAIN sessions : ghost[q].noneAvailable => sessions[q].isCompleted

\* C10: updateOverallStats is called exactly once per session, in the step
\* that sets isCompleted, and never for an uncompleted session; and once
\* every upsert issued has been applied, none failing, each user's stats
\* record holds the number of the user's completed sessions, the sums of
\* their score, correct and wrong, and the maximum of their bestStreakInGame.
RECURSIVE Fold(_, _)
Fold(userId, n) ==
    IF n = 0 THEN NoStats
    ELSE IF sessions[n].userId = userId /\ sessions[n].isCompleted
         THEN LET rest == Fold(userId, n - 1)
              IN  [exists |-> TRUE,
                   gamesPlayed |-> rest.gamesPlayed + 1,
                   totalScore |-> rest.totalScore + sessions[n].score,
                   totalCorrect |-> rest.totalCorrect + sessions[n].correct,
                   totalWrong |-> rest.totalWrong + sessions[n].wrong,
                   bestStreak |-> IF sessions[n].bestStreakInGame > rest.bestStreak
                                  THEN sessions[n].bestStreakInGame ELSE rest.bestStreak]
         ELSE Fold(userId, n - 1)

C10_StatsAggregation ==
    /\ \A q \in DOMAIN sessions :
          ghost[q].aggCalls = (IF sessions[q].isCompleted THEN 1 ELSE 0)
    /\ (inflight = {} /\ inserting = {} /\ failed = {}) =>
          \A userId \in Users : StatsRecord(userId) = Fold(userId, Len(sessions))

\* C10 witness: two sessions of one user are completed, one with a right
\* answer, and both upserts have been applied.
C10_Witness ==
    /\ inflight = {} /\ inserting = {} /\ failed = {}
    /\ \E userId \in Users :
          /\ StatsRecord(userId).gamesPlayed = 2
          /\ StatsRecord(userId).totalCorrect = 1
          /\ StatsRecord(userId).totalWrong = 1

\* C11: when the store rejects the upsert of a completed session, the step
\* leaves every session and every stats document as they were, the session
\* stays completed with the figures its completing response carried, and
\* that response was a completion with finalStats, not an error.
C11_FailedUpsertState ==
    \A q \in failed :
        /\ q \in DOMAIN sessions
        /\ sessions[q].isCompleted
        /\ ghost[q].final = FinalStats(sessions[q])
        /\ (resp.op = "answer" /\ resp.quizId = q /\ Evaluated(resp)) =>
              /\ resp.kind \in {"completedLimit", "completedExhausted"}
              /\ resp.final = FinalStats(sessions[q])

C11_FailedUpsertStep ==
    failed' # failed =>
        /\ sessions' = sessions
        /\ stats' = stats
        /\ resp' = resp
        /\ \A q \in failed' \ failed : sessions[q].isCompleted

\* C11: both parts, the states and the failing step.
C11_UpsertFailureIsolated == []C11_FailedUpsertState /\ [][C11_FailedUpsertStep]_vars

\* C11 witness: the upsert of a session that scored has failed, the latest
\* response is the one that completed it, and its user has no stats document.
C11_Witness ==
    \E q \in failed :
        /\ sessions[q].isCompleted
        /\ sessions[q].score > 0
        /\ resp.op = "answer" /\ resp.quizId = q
        /\ resp.kind \in {"completedLimit", "completedExhausted"}
        /\ resp.final = FinalStats(sessions[q])
        /\ stats[sessions[q].userId] = <<>>

\* C12: an answer request that names a session id not in the store, comes
\* from a user who does not own the session, or names a questionId the bank
\* does not hold, is turned away: the sessions, the stats documents and the
\* pending upserts are the same after the step as before, and
\* updateOverallStats is not called.
C12_Unacceptable(r) ==
    IF r.quizId \notin DOMAIN sessions THEN TRUE
    ELSE IF sessions[r.quizId].userId # r.userId THEN TRUE
    ELSE r.questionId \notin {allQuestions[i].id : i \in DOMAIN allQuestions}

C12_RejectedBeforeMutation ==
    [][(resp' # resp /\ resp'.op = "answer" /\ C12_Unacceptable(resp')) =>
          /\ resp'.kind \in {"sessionRejected", "questionNotFound"}
          /\ resp'.question = Null /\ resp'.final = NoFinal
          /\ sessions' = sessions
          /\ stats' = stats
          /\ inflight' = inflight /\ inserting' = inserting /\ failed' = failed
          /\ \A q \in DOMAIN ghost : ghost'[q].aggCalls = ghost[q].aggCalls]_vars

\* C12 witness: a user who does not own an uncompleted session has answered
\* the question it was just given, and was turned away.
C12_Witness ==
    /\ resp.op = "answer" /\ resp.kind = "sessionRejected"
    /\ resp.quizId \in DOMAIN sessions
    /\ sessions[resp.quizId].userId # resp.userId
    /\ ~sessions[resp.quizId].isCompleted
    /\ Len(sessions[resp.quizId].seenIds) >= 1
    /\ resp.questionId = sessions[resp.quizId].seenIds[Len(sessions[resp.quizId].seenIds)]

\* C13: an answer request turned away by the session guard reports the
\* precondition that failed: NotFound (status 404) when the session id is not
\* in the store, Forbidden (403) when the session is another user's,
\* InvalidState (409) when the requester's own session is completed.
C13_FailedPrecondition(r) ==
    IF r.quizId \notin DOMAIN sessions THEN "NotFound"
    ELSE IF sessions[r.quizId].userId # r.userId THEN "Forbidden"
    ELSE "InvalidState"

C13_Reported(r) ==
    CASE StatusOf(r.kind) = 404 -> "NotFound"
      [] StatusOf(r.kind) = 403 -> "Forbidden"
      [] StatusOf(r.kind) = 409 -> "InvalidState"
      [] OTHER -> "Other"

C13_DistinctRejections ==
    (resp.op = "answer" /\ resp.kind = "sessionRejected") =>
        C13_Reported(resp) = C13_FailedPrecondition(resp)

\* C14: a result request gets figures exactly when the session is in the
\* store, is the requester's and is completed, and a 404 otherwise; the
\* figures are those of the finalStats of the answer response that completed
\* the session, whenever the request is made; and the request changes no
\* session, no stats document and no pending upsert.
C14_ResultState ==
    resp.op = "result" =>
        IF resp.quizId \notin DOMAIN sessions
        THEN resp.kind = "resultNotFound" /\ resp.final = NoFinal
        ELSE IF sessions[resp.quizId].userId = resp.userId /\ sessions[resp.quizId].isCompleted
        THEN resp.kind = "result" /\ resp.final = ghost[resp.quizId].final
        ELSE resp.kind = "resultNotFound" /\ resp.final = NoFinal

C14_ResultStep ==
    /\ (resp' # resp /\ resp'.op = "result") =>
          /\ sessions' = sessions
          /\ stats' = stats
          /\ inflight' = inflight /\ inserting' = inserting /\ failed' = failed
    /\ \A q \in DOMAIN sessions :
          (~sessions[q].isCompleted /\ sessions'[q].isCompleted) =>
              /\ resp'.op = "answer" /\ resp'.quizId = q
              /\ resp'.final = FinalStats(sessions'[q])
              /\ ghost'[q].final = resp'.final

\* C14: both parts, the responses and the steps.
C14_ResultIsFinalStats == []C14_ResultState /\ [][C14_ResultStep]_vars

\* C14 witness: the owner reads the result of a session that scored, after
\* its stats upsert has been applied and nothing is pending.
C14_Witness ==
    /\ resp.op = "result" /\ resp.kind = "result"
    /\ resp.final.score > 0
    /\ resp.final = FinalStats(sessions[resp.quizId])
    /\ inflight = {} /\ inserting = {} /\ failed = {}
    /\ stats[resp.userId] # <<>>

\* C15: when two or more sessions of one user have completed and the store
\* has settled all their upserts, none failing, in whatever order it ran
\* them and whether or not the user had a document before, the user has
\* exactly one stats document, and it holds the number of those sessions,
\* the sums of their score, correct and wrong, and their best streak.
C15_CompletedOf(userId) ==
    {q \in DOMAIN sessions : sessions[q].userId = userId /\ sessions[q].isCompleted}

C15_Settled(userId) ==
    /\ \A u \in inflight \cup inserting : u.userId # userId
    /\ \A q \in failed : sessions[q].userId # userId

C15_ConcurrentCompletions ==
    \A userId \in Users :
        (Cardinality(C15_CompletedOf(userId)) >= 2 /\ C15_Settled(userId)) =>
            /\ Len(stats[userId]) = 1
            /\ stats[userId][1] = Fold(userId, Len(sessions))

\* C16: for a session, the questions getNextQuestion can return are exactly
\* those of the first non-empty tier of its pool (the bank questions not in
\* seenIds, of the session's category unless that is "general"): the pool
\* questions at the current difficulty, else those one away from it, else the
\* whole pool; none available exactly when the pool is empty. It holds of
\* every stored session and of every question a handler has delivered.
C16_Pool(session) ==
    {id \in {allQuestions[i].id : i \in DOMAIN allQuestions} :
        /\ \A k \in DOMAIN session.seenIds : session.seenIds[k] # id
        /\ \/ ToLowerCase(session.category) = "general"
           \/ SameCategory(QuestionOf(id), session)}

C16_Tier(session) ==
    LET pool == C16_Pool(session)
        exact == {id \in pool : QuestionOf(id).difficulty = session.currentDifficulty}
        near == {id \in pool :
                    \/ QuestionOf(id).difficulty = session.currentDifficulty + 1
                    \/ QuestionOf(id).difficulty = session.currentDifficulty - 1}
    IN  IF exact # {} THEN exact ELSE IF near # {} THEN near ELSE pool

C16_Results(session) == {getNextQuestion(session, rnd) : rnd \in RandomIndices(session)}

\* The session as it was when the handler called getNextQuestion for the
\* question it delivered last: lines 178 and 257 push the id afterwards.
C16_AtCall(session) ==
    [session EXCEPT !.seenIds = SubSeq(@, 1, Len(@) - 1)]

C16_SelectorState ==
    \A q \in DOMAIN sessions :
        C16_Results(sessions[q]) =
            (IF C16_Pool(sessions[q]) = {} THEN {Null} ELSE C16_Tier(sessions[q]))

C16_SelectorStep ==
    (resp' # resp /\ resp'.question # Null) =>
        /\ resp'.quizId \in DOMAIN sessions'
        /\ resp'.question \in C16_Tier(C16_AtCall(sessions'[resp'.quizId]))

\* C16: both parts, the function on stored sessions and the deliveries.
C16_SelectorTiers == []C16_SelectorState /\ [][C16_SelectorStep]_vars

\* C16 witness: an answer was given a question from the tier one away from
\* the difficulty, no pool question being at the difficulty; the tier had
\* several members and the one delivered is not the first of them.
C16_Witness ==
    /\ resp.op = "answer" /\ resp.question # Null
    /\ LET atCall == C16_AtCall(sessions[resp.quizId])
           tier == C16_Tier(atCall)
       IN  /\ \A id \in tier : QuestionOf(id).difficulty # atCall.currentDifficulty
           /\ Cardinality(tier) >= 2
           /\ \E id \in tier : id < resp.question

\* C17: an evaluated answer changes its session by one scoring step and no
\* other session at all. When the answer submitted is the question's answer:
\* score goes up by the question's points (10 when it has none), correct and
\* currentStreak by one, wrong stays. Otherwise wrong goes up by one,
\* currentStreak becomes 0, score and correct stay. Then bestStreakInGame is
\* the larger of its old value and the new currentStreak. No other step
\* changes a stored session.
C17_ScoredOnce(old, new, question, answer) ==
    /\ IF answer = question.answer
       THEN /\ new.score = old.score + (IF question.points = 0 THEN 10 ELSE question.points)
            /\ new.correct = old.correct + 1
            /\ new.currentStreak = old.currentStreak + 1
            /\ new.wrong = old.wrong
       ELSE /\ new.wrong = old.wrong + 1
            /\ new.currentStreak = 0
            /\ new.score = old.score
            /\ new.correct = old.correct
    /\ new.bestStreakInGame =
          (IF new.currentStreak > old.bestStreakInGame
           THEN new.currentStreak ELSE old.bestStreakInGame)

C17_ScoringStep ==
    [][\A q \in DOMAIN sessions :
          IF resp' # resp /\ Evaluated(resp') /\ resp'.quizId = q
          THEN C17_ScoredOnce(sessions[q], sessions'[q],
                              QuestionOf(resp'.questionId), resp'.answer)
          ELSE sessions'[q] = sessions[q]]_vars

\* C17 witness: the first answer of a session was the right answer to a
\* question worth 10 points: score 10, streak 1, difficulty 4.
C17_Witness ==
    /\ Evaluated(resp)
    /\ resp.answer = QuestionOf(resp.questionId).answer
    /\ LET session == sessions[resp.quizId]
       IN  /\ session.score = 10 /\ session.correct = 1 /\ session.wrong = 0
           /\ session.currentStreak = 1 /\ session.bestStreakInGame = 1
           /\ session.currentDifficulty = 4

\* C18: a step changes a stored session only when it is an answer request
\* whose questionId was in the session's seenIds when the request was made:
\* an answer naming a question never delivered to the session changes
\* nothing.
C18_OnlyShownEvaluated ==
    [][\A q \in DOMAIN sessions :
          sessions'[q] # sessions[q] =>
              /\ resp'.op = "answer" /\ resp'.quizId = q
              /\ \E k \in DOMAIN sessions[q].seenIds :
                    sessions[q].seenIds[k] = resp'.questionId]_vars

\* C19: in every session of the store, correct + wrong is at most the
\* number of questions delivered (the length of seenIds) and at most the
\* quiz limit; in a session that was given its first question, correct +
\* wrong is one less than the length of seenIds until it is completed, and
\* equal to it afterwards.
C19_AnsweredVersusShown ==
    \A q \in DOMAIN sessions :
        LET session == sessions[q]
            answered == session.correct + session.wrong
        IN  /\ answered <= Len(session.seenIds)
            /\ answered <= QUIZ_LIMIT
            /\ Len(session.seenIds) >= 1 =>
                  answered = (IF session.isCompleted THEN Len(session.seenIds)
                              ELSE Len(session.seenIds) - 1)

\* The same for the sessions that were given a first question only.
C19_StartedSessionsOnly ==
    \A q \in DOMAIN sessions :
        LET session == sessions[q]
            answered == session.correct + session.wrong
        IN  Len(session.seenIds) >= 1 =>
              /\ answered <= Len(session.seenIds)
              /\ answered <= QUIZ_LIMIT
              /\ answered = (IF session.isCompleted THEN Len(session.seenIds)
                             ELSE Len(session.seenIds) - 1)

====
